---- MODULE Spec2Model ----
(***************************************************************************)
(* Wallet-connection and transaction-signing bridge of genie-tech.         *)
(*                                                                         *)
(* One page load runs exactly one page variant (the variant is fixed by    *)
(* the build and the ?mode= query parameter, read once):                   *)
(*   connect_paste  webapp/src/App.jsx   ConnectMode (paste / typed)       *)
(*   connect_ext    unnamed/part_003     ConnectMode (extension + manual)  *)
(*                  unnamed/part_002     lazy loader, manual fallback      *)
(*   transact       unnamed/part_003     TransactMode                      *)
(*   sign_swap      webapp/src/App.jsx   SignSwapMode                      *)
(*   dex            unnamed/part_005     DexScreener / WalletPanel         *)
(* Every await of the source is a suspension point: the part of a handler  *)
(* up to its first await is one action, each continuation is one action.   *)
(***************************************************************************)
EXTENDS Integers, Sequences, FiniteSets, Bags, TLC

VARIABLES
    page,       \* page variant of this page load
    tg,         \* window.Telegram?.WebApp is present
    algod,      \* algodClient was constructed (App.jsx:26-32)
    alive,      \* the page has not been torn down by the host
    closeReq,   \* tg.close() has been called
    delivered,  \* payloads handed to tg.sendData, in order
    timers,     \* pending setTimeout callbacks (FIFO: equal delays per page)
    lookups,    \* addresses handed to an account / balance lookup
    verified,   \* addresses whose account lookup completed successfully
    unhandled,  \* errors no handler caught: uncaught exceptions of callbacks,
                \* unhandled promise rejections
    cm,         \* App.jsx ConnectMode component state
    cmOps,      \* App.jsx ConnectMode pending awaits
    xc,         \* part_003 ConnectMode component state
    xcOps,      \* part_003 ConnectMode pending awaits
    tm,         \* part_003 TransactMode component state and host main button
    tmAtt,      \* part_003 TransactMode: the handleSendAlgo call in progress
    tmOps,      \* part_003 TransactMode: other pending awaits
    ss,         \* App.jsx SignSwapMode component state
    ssAtt,      \* App.jsx SignSwapMode: the handleSign calls made so far
    wp,         \* part_005 WalletPanel / DexScreener wallet state, localStorage
    wpOps,      \* part_005 pending fetches
    candidate,  \* a string handed to the address validators on its own
    verdict,    \* what each validator returned for it
    dash        \* frontend Dashboard.jsx: the component's sockets and timers

valVars == <<candidate, verdict>>
sideVars == <<valVars, dash>>
shared == <<sideVars, page, tg, algod, unhandled, alive, closeReq, delivered, timers, lookups, verified>>
cmVars == <<cm, cmOps>>
xcVars == <<xc, xcOps>>
tmVars == <<tm, tmAtt, tmOps>>
ssVars == <<ss, ssAtt>>
wpVars == <<wp, wpOps>>
vars == <<shared, cmVars, xcVars, tmVars, ssVars, wpVars>>
pageVars == <<cmVars, xcVars, tmVars, ssVars, wpVars>>
cmOthers == <<xcVars, tmVars, ssVars, wpVars>>
xcOthers == <<cmVars, tmVars, ssVars, wpVars>>
tmOthers == <<cmVars, xcVars, ssVars, wpVars>>
ssOthers == <<cmVars, xcVars, tmVars, wpVars>>
wpOthers == <<cmVars, xcVars, tmVars, ssVars>>

---------------------------------------------------------------------------
(* Bounds *)
MaxVerifs == 2      \* account lookups started per page load (paste page)
MaxPastes == 1      \* clipboard reads in flight at once
MaxConnects == 1    \* wallet.connect() / disconnect() calls in flight at once
MaxRefresh == 1     \* balance refreshes in flight at once (outside a payment)
MaxPayments == 2    \* payments started per page load
MaxPresses == 1     \* presses of the host main button
MaxFetches == 2     \* runs of the pending-transaction fetch effect at mount
MaxPanelConnects == 2  \* balance checks started from the wallet panel
MaxSockets == 3      \* WebSocket objects the Dashboard creates
MaxTaskFetches == 2  \* task list requests of the Dashboard in flight at once

---------------------------------------------------------------------------
(* Addresses.  A candidate is a sequence of symbols: 0 is white space,     *)
(* 1..Base are the characters of the address alphabet, each carrying the   *)
(* digit one less than itself.  An address is a body followed by two       *)
(* characters holding the checksum of the body; as the 58 base32           *)
(* characters of an address hold 290 bits for 36 bytes, the low bits of    *)
(* the last character belong to no byte.                                   *)
AddrLen == 58
Base == 4
Spare == 2    \* last characters that decode to the same bytes

RECURSIVE SumSeq(_)
SumSeq(s) == IF s = <<>> THEN 0 ELSE Head(s) + SumSeq(Tail(s))

Checksum(body) == SumSeq(body) % (Base * (Base \div Spare))

\* the two characters the encoder writes for a checksum
ChecksumChars(cs) ==
    <<1 + (cs \div (Base \div Spare)), 1 + Spare * (cs % (Base \div Spare))>>

\* the checksum the decoder reads from the last two characters: the low
\* bits of the last one are dropped
DecodedChecksum(addr) ==
    (addr[AddrLen - 1] - 1) * (Base \div Spare) + ((addr[AddrLen] - 1) \div Spare)

MkAddr(fill) ==
    [j \in 1..(AddrLen - 2) |-> fill]
        \o ChecksumChars(Checksum([j \in 1..(AddrLen - 2) |-> fill]))

AddrA == MkAddr(1)
AddrB == MkAddr(2)
BadSum == [AddrA EXCEPT ![AddrLen - 1] = 1 + (AddrA[AddrLen - 1] % Base)]
TooShort == <<1>>
Padded == <<0>> \o AddrA \o <<0>>
Empty == <<>>

Inputs == {AddrA, AddrB, BadSum, TooShort, Padded}

RECURSIVE TrimLeft(_)
TrimLeft(s) == IF s # <<>> /\ Head(s) = 0 THEN TrimLeft(Tail(s)) ELSE s

RECURSIVE TrimRight(_)
TrimRight(s) ==
    IF s # <<>> /\ s[Len(s)] = 0 THEN TrimRight(SubSeq(s, 1, Len(s) - 1)) ELSE s

\* String.prototype.trim
trim(s) == TrimRight(TrimLeft(s))

\* algosdk.decodeAddress: returns normally exactly when the candidate
\* decodes and its checksum matches, throws otherwise
decodeAddress(addr) ==
    /\ Len(addr) = AddrLen
    /\ \A i \in 1..Len(addr) : addr[i] \in 1..Base
    /\ DecodedChecksum(addr) = Checksum(SubSeq(addr, 1, AddrLen - 2))

isValidLengthOnly(addr) ==
    IF addr = <<>> \/ Len(addr) # AddrLen THEN FALSE ELSE TRUE

isValidAlgoAddress(addr) ==
    IF addr = <<>> \/ Len(addr) # AddrLen THEN FALSE ELSE decodeAddress(addr)

\* waitForConfirmation(txId, rounds = 4)
WaitRounds == 4

\* JavaScript values that are not amounts, kept apart from every amount
Null == 0 - 1       \* null
Missing == 0 - 2    \* undefined (absent field)
NaN == 0 - 3        \* NaN
Failure == 0 - 4    \* the awaited call rejected

\* amounts an account lookup can report (microAlgos; Missing = no field)
LedgerAmounts == {Missing, 0, 2000000}

balNoDefault(amount) == IF amount = Missing THEN NaN ELSE amount

\* (info['amount'] || 0) / 1e6, kept in microAlgos
balOrZero(amount) == IF amount = Missing \/ amount = 0 THEN 0 ELSE amount

\* everything a trimmed input can be
Candidates == {trim(x) : x \in Inputs}

BagAdd(b, x) == b (+) SetToBag({x})
BagRemove(b, x) == b (-) SetToBag({x})

---------------------------------------------------------------------------
(* Host channel *)

WalletConnected(addr, bal) ==
    [action |-> "wallet_connected", address |-> addr, balance |-> bal]

\* a setTimeout callback runs: tg.sendData(data); tg.close()
TimerFire ==
    /\ alive
    /\ timers # <<>>
    /\ delivered' = Append(delivered, Head(timers))
    /\ timers' = Tail(timers)
    /\ closeReq' = TRUE
    /\ UNCHANGED <<sideVars, page, tg, algod, unhandled, alive, lookups, verified>>
    /\ UNCHANGED pageVars

\* a setTimeout callback runs and tg.sendData(data) throws: nothing around
\* the call catches it, and tg.close() on the next line is not reached
TimerThrows ==
    /\ alive
    /\ timers # <<>>
    /\ timers' = Tail(timers)
    /\ unhandled' = unhandled \cup {"sendData"}
    /\ UNCHANGED <<sideVars, page, tg, algod, alive, closeReq, delivered, lookups, verified>>
    /\ UNCHANGED pageVars

\* the host tears the page down some time after close was requested
HostTeardown ==
    /\ alive
    /\ closeReq
    /\ alive' = FALSE
    /\ UNCHANGED <<sideVars, page, tg, algod, unhandled, closeReq, delivered, timers, lookups, verified>>
    /\ UNCHANGED pageVars

---------------------------------------------------------------------------
(* webapp/src/App.jsx ConnectMode *)

CmInit ==
    /\ cm = [address |-> Empty, status |-> "null", errorMsg |-> "",
             balance |-> Null, sentRef |-> FALSE,
             nVerifs |-> 0, nSuccess |-> 0, calls |-> 0, invalidAt |-> Null]
    /\ cmOps = [reads |-> 0, lookups |-> EmptyBag]

CmOnPage == page = "connect_paste" /\ alive

\* the form is rendered unless status === 'success'
CmFormShown == cm.status # "success"

\* if (tg && !sentRef.current)
CmMaySendNoGuard(hasTg, sent) == hasTg
CmMaySend(hasTg, sent) == hasTg /\ ~sent

verifyAndConnectSticks(trimmed, base, ops) ==
    IF ~isValidAlgoAddress(trimmed)
    THEN /\ cm' = [base EXCEPT !.errorMsg = "invalid", !.status = "checking",
                               !.invalidAt = base.nVerifs]
         /\ cmOps' = ops
         /\ lookups' = lookups
    ELSE IF ~algod
    THEN /\ cm' = [base EXCEPT !.errorMsg = "noclient", !.status = "error"]
         /\ cmOps' = ops
         /\ lookups' = lookups
    ELSE /\ base.nVerifs < MaxVerifs
         /\ cm' = [base EXCEPT !.status = "checking", !.errorMsg = "",
                               !.nVerifs = @ + 1, !.calls = 1]
         /\ cmOps' = [ops EXCEPT !.lookups = BagAdd(@, trimmed)]
         /\ lookups' = lookups \cup {trimmed}

\* verifyAndConnect(addr) up to its await; base is the component state the
\* caller has already written, ops the pending awaits it leaves
\* (invalidAt remembers how many lookups had been started when an invalid
\* address was last submitted)
verifyAndConnect(trimmed, base, ops) ==
    IF ~isValidAlgoAddress(trimmed)
    THEN /\ cm' = [base EXCEPT !.errorMsg = "invalid", !.status = "error",
                               !.invalidAt = base.nVerifs]
         /\ cmOps' = ops
         /\ lookups' = lookups
    ELSE IF ~algod
    THEN /\ cm' = [base EXCEPT !.errorMsg = "noclient", !.status = "error"]
         /\ cmOps' = ops
         /\ lookups' = lookups
    ELSE /\ base.nVerifs < MaxVerifs
         /\ cm' = [base EXCEPT !.status = "checking", !.errorMsg = "",
                               !.nVerifs = @ + 1, !.calls = 1]
         /\ cmOps' = [ops EXCEPT !.lookups = BagAdd(@, trimmed)]
         /\ lookups' = lookups \cup {trimmed}

\* <input onChange>
CmTypeInput(text) ==
    /\ CmOnPage /\ CmFormShown
    /\ cm' = [cm EXCEPT !.address = text, !.errorMsg = "", !.status = "null"]
    /\ UNCHANGED <<shared, cmOps>>
    /\ UNCHANGED cmOthers

\* handlePaste up to the clipboard read
handlePaste ==
    /\ CmOnPage /\ CmFormShown
    /\ cm.status # "checking"
    /\ cmOps.reads < MaxPastes
    /\ cmOps' = [cmOps EXCEPT !.reads = @ + 1]
    /\ UNCHANGED <<shared, cm>>
    /\ UNCHANGED cmOthers

\* navigator.clipboard.readText() resolved with text
CmPasteResolved(text) ==
    /\ CmOnPage
    /\ cmOps.reads > 0
    /\ LET trimmed == trim(text)
           base == [cm EXCEPT !.address = trimmed, !.errorMsg = ""]
           ops == [cmOps EXCEPT !.reads = @ - 1]
       IN  IF isValidAlgoAddress(trimmed)
           THEN verifyAndConnect(trimmed, base, ops)
           ELSE cm' = base /\ cmOps' = ops /\ lookups' = lookups
    /\ UNCHANGED <<sideVars, page, tg, algod, unhandled, alive, closeReq, delivered, timers, verified>>
    /\ UNCHANGED cmOthers

\* navigator.clipboard.readText() rejected
CmPasteRejected ==
    /\ CmOnPage
    /\ cmOps.reads > 0
    /\ cm' = [cm EXCEPT !.errorMsg = "clipboard"]
    /\ cmOps' = [cmOps EXCEPT !.reads = @ - 1]
    /\ UNCHANGED shared
    /\ UNCHANGED cmOthers

\* the Verify & Connect button: verifyAndConnect()
CmClickVerify ==
    /\ CmOnPage /\ CmFormShown
    /\ trim(cm.address) # <<>>
    /\ cm.status # "checking"
    /\ verifyAndConnect(trim(cm.address), cm, cmOps)
    /\ UNCHANGED <<sideVars, page, tg, algod, unhandled, alive, closeReq, delivered, timers, verified>>
    /\ UNCHANGED cmOthers

\* accountInformation(trimmed).do() resolved
CmLookupResolved(trimmed, amount) ==
    /\ CmOnPage
    /\ BagIn(trimmed, cmOps.lookups)
    /\ LET bal == balOrZero(amount)
           send == CmMaySend(tg, cm.sentRef)
       IN  /\ cm' = [cm EXCEPT !.balance = bal, !.address = trimmed,
                               !.status = "success", !.nSuccess = @ + 1,
                               !.sentRef = IF send THEN TRUE ELSE @]
           /\ timers' = IF send THEN Append(timers, WalletConnected(trimmed, bal))
                                ELSE timers
           /\ verified' = verified \cup {trimmed}
    /\ cmOps' = [cmOps EXCEPT !.lookups = BagRemove(@, trimmed)]
    /\ UNCHANGED <<sideVars, page, tg, algod, unhandled, alive, closeReq, delivered, lookups>>
    /\ UNCHANGED cmOthers

CmLookupRejectedConnects(trimmed) ==
    /\ CmOnPage
    /\ BagIn(trimmed, cmOps.lookups)
    /\ cm' = [cm EXCEPT !.status = "success", !.sentRef = TRUE]
    /\ timers' = IF tg /\ ~cm.sentRef THEN Append(timers, WalletConnected(trimmed, 0))
                                       ELSE timers
    /\ cmOps' = [cmOps EXCEPT !.lookups = BagRemove(@, trimmed)]
    /\ UNCHANGED <<sideVars, page, tg, algod, unhandled, alive, closeReq, delivered, lookups, verified>>
    /\ UNCHANGED cmOthers

\* accountInformation(trimmed).do() rejected
CmLookupRejected(trimmed) ==
    /\ CmOnPage
    /\ BagIn(trimmed, cmOps.lookups)
    /\ cm' = [cm EXCEPT !.errorMsg = "verify", !.status = "error"]
    /\ cmOps' = [cmOps EXCEPT !.lookups = BagRemove(@, trimmed)]
    /\ UNCHANGED shared
    /\ UNCHANGED cmOthers

CmNext ==
    \/ \E text \in Inputs : CmTypeInput(text)
    \/ handlePaste
    \/ \E text \in Inputs : CmPasteResolved(text)
    \/ CmPasteRejected
    \/ CmClickVerify
    \/ \E a \in Candidates, amount \in LedgerAmounts : CmLookupResolved(a, amount)
    \/ \E a \in Candidates : CmLookupRejected(a)

---------------------------------------------------------------------------
(* unnamed/part_003 ConnectMode: extension strategy with manual fallback *)

\* accounts the wallet library can report as activeAccount
ExtAccounts == {AddrB}
TmAccounts == {AddrB}

\* the component state of a freshly mounted form
\* (stage: "ui" the wallet form is mounted; "lib", "hook" part_002 is still
\* importing the wallet library; "fallback" ManualConnectFallback is mounted
\* instead; "blank" nothing is rendered.  failed is the set of ways the
\* extension strategy has failed so far.)
XcFresh(stage) ==
    [activeAccount |-> Empty, balance |-> Null, error |-> "null",
     success |-> FALSE, showManual |-> FALSE, manualAddress |-> Empty,
     checking |-> FALSE, dataSentRef |-> FALSE,
     reported |-> {}, calls |-> 0,
     stage |-> stage, failed |-> {}]

\* part_003 imports the wallet library statically and mounts the form at
\* once; part_002 imports it in an effect of WalletConnectMode
XcInit ==
    /\ xc \in IF page = "connect_ext"
               THEN {XcFresh("ui"), XcFresh("lib")}
               ELSE {XcFresh("ui")}
    /\ xcOps = [connects |-> 0, reads |-> 0,
                extLookups |-> EmptyBag, manLookups |-> EmptyBag]

XcOnPage == page = "connect_ext" /\ alive /\ xc.stage \in {"ui", "fallback"}

\* the wallet form (wallet buttons, manual toggle) is mounted
XcWalletUi == xc.stage = "ui"

\* the manual address form is rendered
XcManualShown == xc.stage = "fallback" \/ xc.showManual

\* ManualConnectFallback is mounted in place of the wallet form
XcToFallback(kind) ==
    /\ xc' = [XcFresh("fallback") EXCEPT !.failed = xc.failed \cup {kind}]
    /\ xcOps' = xcOps

\* WalletConnectMode: import('@txnlab/use-wallet-react') resolved; the effect
\* of WalletConnectInner constructs the WalletManager (ok) or catches what
\* the constructor throws; ConnectModeUI then imports the hook
XcLibResolved(ok) ==
    /\ page = "connect_ext" /\ alive /\ xc.stage = "lib"
    /\ IF ok
       THEN xc' = [xc EXCEPT !.stage = "hook"] /\ xcOps' = xcOps
       ELSE XcToFallback("init")
    /\ UNCHANGED shared
    /\ UNCHANGED xcOthers

XcLibRejectedHangs ==
    /\ page = "connect_ext" /\ alive /\ xc.stage = "lib"
    /\ ~("load" \in xc.failed)
    /\ xc' = [xc EXCEPT !.failed = @ \cup {"load"}]
    /\ xcOps' = xcOps
    /\ UNCHANGED shared
    /\ UNCHANGED xcOthers

\* WalletConnectMode: the import rejected: setLoadError(true)
XcLibRejected ==
    /\ page = "connect_ext" /\ alive /\ xc.stage = "lib"
    /\ XcToFallback("load")
    /\ UNCHANGED shared
    /\ UNCHANGED xcOthers

\* ConnectModeUI: import(...).then(m => setHookMod(m)) resolved; the first
\* render of the form under the WalletProvider succeeds (ok) or throws, and
\* the ErrorBoundary then renders its fallback
XcHookResolved(ok) ==
    /\ page = "connect_ext" /\ alive /\ xc.stage = "hook"
    /\ IF ok
       THEN xc' = [xc EXCEPT !.stage = "ui"] /\ xcOps' = xcOps
       ELSE XcToFallback("render")
    /\ UNCHANGED shared
    /\ UNCHANGED xcOthers

\* ConnectModeUI: the import rejected; the promise has no catch and the
\* component keeps rendering null
XcHookRejected ==
    /\ page = "connect_ext" /\ alive /\ xc.stage = "hook"
    /\ xc' = [xc EXCEPT !.stage = "blank"]
    /\ unhandled' = unhandled \cup {"import"}
    /\ UNCHANGED <<sideVars, page, tg, algod, alive, closeReq, delivered, timers, lookups, verified, xcOps>>
    /\ UNCHANGED xcOthers

\* if (success) return <the connected screen>
XcFormShown == ~xc.success

isValidAlgorandIgnoresDecode(addr) ==
    IF addr = <<>> THEN FALSE
    ELSE IF Len(addr) # AddrLen THEN FALSE
    ELSE TRUE

isValidAlgorandAddress(addr) ==
    IF addr = <<>> THEN FALSE
    ELSE IF Len(addr) # AddrLen THEN FALSE
    ELSE decodeAddress(addr)

\* getAccountBalance: info['amount'] / 1e6, or null when the lookup throws
getAccountBalance(outcome) ==
    IF outcome = Failure THEN Null
    ELSE IF outcome = Missing THEN NaN
    ELSE outcome

\* what a getAccountBalance call can meet: an account record (algod always
\* reports its amount) or a failed request
LookupOutcomes == (LedgerAmounts \ {Missing}) \cup {Failure}

\* handleConnect up to wallet.connect()
XcHandleConnect ==
    /\ XcOnPage /\ XcWalletUi /\ XcFormShown
    /\ xcOps.connects < MaxConnects
    /\ xc' = [xc EXCEPT !.error = "null"]
    /\ xcOps' = [xcOps EXCEPT !.connects = @ + 1]
    /\ UNCHANGED shared
    /\ UNCHANGED xcOthers

XcConnectResolved ==
    /\ XcOnPage
    /\ xcOps.connects > 0
    /\ xcOps' = [xcOps EXCEPT !.connects = @ - 1]
    /\ UNCHANGED <<shared, xc>>
    /\ UNCHANGED xcOthers

XcConnectRejected ==
    /\ XcOnPage
    /\ xcOps.connects > 0
    /\ xc' = [xc EXCEPT !.error = "connect", !.failed = @ \cup {"connect"}]
    /\ xcOps' = [xcOps EXCEPT !.connects = @ - 1]
    /\ UNCHANGED shared
    /\ UNCHANGED xcOthers

\* useWallet() reports a new activeAccount object; the [activeAccount]
\* effect runs and, when it passes its guard, sendWalletData up to its await
XcActiveAccount(addr) ==
    /\ XcOnPage /\ XcWalletUi
    /\ IF addr # Empty /\ ~xc.dataSentRef
       THEN /\ xc' = [xc EXCEPT !.activeAccount = addr,
                                !.reported = @ \cup {addr},
                                !.dataSentRef = TRUE, !.success = TRUE]
            /\ xcOps' = [xcOps EXCEPT !.extLookups = BagAdd(@, addr)]
            /\ lookups' = lookups \cup {addr}
       ELSE /\ xc' = [xc EXCEPT !.activeAccount = addr,
                                !.reported = IF addr = Empty THEN @ ELSE @ \cup {addr}]
            /\ xcOps' = xcOps
            /\ lookups' = lookups
    /\ UNCHANGED <<sideVars, page, tg, algod, unhandled, alive, closeReq, delivered, timers, verified>>
    /\ UNCHANGED xcOthers

\* sendWalletData after await getAccountBalance(addr)
XcSendWalletData(addr, outcome) ==
    /\ XcOnPage
    /\ BagIn(addr, xcOps.extLookups)
    /\ LET bal == getAccountBalance(outcome)
       IN  /\ xc' = [xc EXCEPT !.balance = bal]
           /\ timers' = IF tg THEN Append(timers, WalletConnected(addr, bal))
                              ELSE timers
    /\ verified' = IF outcome = Failure THEN verified ELSE verified \cup {addr}
    /\ xcOps' = [xcOps EXCEPT !.extLookups = BagRemove(@, addr)]
    /\ UNCHANGED <<sideVars, page, tg, algod, unhandled, alive, closeReq, delivered, lookups>>
    /\ UNCHANGED xcOthers

XcToggleManual ==
    /\ XcOnPage /\ XcWalletUi /\ XcFormShown
    /\ xc' = [xc EXCEPT !.showManual = ~@]
    /\ UNCHANGED <<shared, xcOps>>
    /\ UNCHANGED xcOthers

\* manual <input onChange>
XcTypeManual(text) ==
    /\ XcOnPage /\ XcFormShown /\ XcManualShown
    /\ xc' = [xc EXCEPT !.manualAddress = text, !.error = "null"]
    /\ UNCHANGED <<shared, xcOps>>
    /\ UNCHANGED xcOthers

\* handlePaste up to the clipboard read
XcHandlePaste ==
    /\ XcOnPage /\ XcFormShown /\ XcManualShown
    /\ xcOps.reads < MaxPastes
    /\ xcOps' = [xcOps EXCEPT !.reads = @ + 1]
    /\ UNCHANGED <<shared, xc>>
    /\ UNCHANGED xcOthers

XcPasteResolved(text) ==
    /\ XcOnPage
    /\ xcOps.reads > 0
    /\ xc' = [xc EXCEPT !.manualAddress = trim(text), !.error = "null"]
    /\ xcOps' = [xcOps EXCEPT !.reads = @ - 1]
    /\ UNCHANGED shared
    /\ UNCHANGED xcOthers

XcPasteRejected ==
    /\ XcOnPage
    /\ xcOps.reads > 0
    /\ xc' = [xc EXCEPT !.error = "clipboard"]
    /\ xcOps' = [xcOps EXCEPT !.reads = @ - 1]
    /\ UNCHANGED shared
    /\ UNCHANGED xcOthers

\* handleManualSubmit up to its await
handleManualSubmit ==
    /\ XcOnPage /\ XcFormShown /\ XcManualShown
    /\ trim(xc.manualAddress) # <<>>
    /\ ~xc.checking
    /\ LET trimmed == trim(xc.manualAddress)
       IN  IF ~isValidAlgorandAddress(trimmed)
           THEN /\ xc' = [xc EXCEPT !.error = "invalid"]
                /\ xcOps' = xcOps
                /\ lookups' = lookups
           ELSE /\ xc' = [xc EXCEPT !.error = "null", !.checking = TRUE,
                                    !.calls = 1]
                /\ xcOps' = [xcOps EXCEPT !.manLookups = BagAdd(@, trimmed)]
                /\ lookups' = lookups \cup {trimmed}
    /\ UNCHANGED <<sideVars, page, tg, algod, unhandled, alive, closeReq, delivered, timers, verified>>
    /\ UNCHANGED xcOthers

\* handleManualSubmit after accountInformation(trimmed).do() resolved
XcManualResolved(trimmed, amount) ==
    /\ XcOnPage
    /\ BagIn(trimmed, xcOps.manLookups)
    /\ LET balanceAlgo == balOrZero(amount)
       IN  /\ xc' = [xc EXCEPT !.balance = IF XcWalletUi THEN balanceAlgo ELSE @,
                               !.success = TRUE]
           /\ timers' = IF tg THEN Append(timers, WalletConnected(trimmed, balanceAlgo))
                              ELSE timers
    /\ verified' = verified \cup {trimmed}
    /\ xcOps' = [xcOps EXCEPT !.manLookups = BagRemove(@, trimmed)]
    /\ UNCHANGED <<sideVars, page, tg, algod, unhandled, alive, closeReq, delivered, lookups>>
    /\ UNCHANGED xcOthers

XcManualRejectedRetries(trimmed) ==
    /\ XcOnPage
    /\ BagIn(trimmed, xcOps.manLookups)
    /\ IF xc.calls < 2
       THEN /\ xc' = [xc EXCEPT !.calls = @ + 1]
            /\ xcOps' = xcOps
       ELSE /\ xc' = [xc EXCEPT !.error = "verify", !.checking = FALSE]
            /\ xcOps' = [xcOps EXCEPT !.manLookups = BagRemove(@, trimmed)]
    /\ UNCHANGED shared
    /\ UNCHANGED xcOthers

\* handleManualSubmit after accountInformation(trimmed).do() rejected
XcManualRejected(trimmed) ==
    /\ XcOnPage
    /\ BagIn(trimmed, xcOps.manLookups)
    /\ xc' = [xc EXCEPT !.error = "verify", !.checking = FALSE]
    /\ xcOps' = [xcOps EXCEPT !.manLookups = BagRemove(@, trimmed)]
    /\ UNCHANGED shared
    /\ UNCHANGED xcOthers

XcNext ==
    \/ \E ok \in BOOLEAN : XcLibResolved(ok)
    \/ XcLibRejected
    \/ \E ok \in BOOLEAN : XcHookResolved(ok)
    \/ XcHookRejected
    \/ XcHandleConnect
    \/ XcConnectResolved
    \/ XcConnectRejected
    \/ \E a \in ExtAccounts \cup {Empty} : XcActiveAccount(a)
    \/ \E a \in Candidates, o \in LookupOutcomes : XcSendWalletData(a, o)
    \/ XcToggleManual
    \/ \E text \in Inputs : XcTypeManual(text)
    \/ XcHandlePaste
    \/ \E text \in Inputs : XcPasteResolved(text)
    \/ XcPasteRejected
    \/ handleManualSubmit
    \/ \E a \in Candidates, amount \in LedgerAmounts : XcManualResolved(a, amount)
    \/ \E a \in Candidates : XcManualRejected(a)

---------------------------------------------------------------------------
(* unnamed/part_003 TransactMode *)

DUMMY_RECEIVER == AddrA

\* what parseFloat(sendAmount) can be, in tenths of a microAlgo
\* (1000000 is the initial '0.1'; 5 is 0.0000005 ALGO; NaN is a field that
\* does not parse)
SendAmounts == {NaN, 0, 5, 1000000}

\* Math.floor(amountAlgo * 1e6)
amountMicroAlgo(amount) == IF amount >= 0 THEN amount \div 10 ELSE 0 - ((9 - amount) \div 10)

TmIdle == [pc |-> "idle", n |-> 0, from |-> Empty, amount |-> 0, micro |-> 0,
           trace |-> <<>>, nParams |-> 0, nSign |-> 0, nSend |-> 0,
           params |-> Null, txn |-> Null, rounds |-> 0, cause |-> "none"]

TmInit ==
    /\ tm = [activeAccount |-> Empty, balance |-> Null, txStatus |-> "null",
             txId |-> Null, loading |-> FALSE, sendAmount |-> 1000000,
             mbShown |-> FALSE, mbHandlers |-> <<>>,
             nPayments |-> 0, nConfirmed |-> 0, nPresses |-> 0]
    /\ tmAtt = TmIdle
    /\ tmOps = [connects |-> 0, disconnects |-> 0, refreshes |-> EmptyBag]

TmOnPage == page = "transact" /\ alive

TxResult(txId, amount, from) ==
    [status |-> "success", txId |-> txId, amount |-> amount,
     from |-> from, to |-> DUMMY_RECEIVER]

\* disabled={loading || balance === null || balance < parseFloat(sendAmount || '0') + 0.001}
\* (sendAmount is '' when it does not parse; a comparison with NaN is false)
TmSendDisabled ==
    \/ tm.loading
    \/ tm.balance = Null
    \/ /\ tm.balance # NaN
       /\ tm.balance * 10 < (IF tm.sendAmount = NaN THEN 0 ELSE tm.sendAmount) + 10000

\* handleConnect up to wallet.connect()
TmHandleConnect ==
    /\ TmOnPage /\ tm.activeAccount = Empty
    /\ tmOps.connects + tmOps.disconnects < MaxConnects
    /\ tm' = [tm EXCEPT !.txStatus = "null"]
    /\ tmOps' = [tmOps EXCEPT !.connects = @ + 1]
    /\ UNCHANGED <<shared, tmAtt>>
    /\ UNCHANGED tmOthers

TmConnectResolved ==
    /\ TmOnPage
    /\ tmOps.connects > 0
    /\ tmOps' = [tmOps EXCEPT !.connects = @ - 1]
    /\ UNCHANGED <<shared, tm, tmAtt>>
    /\ UNCHANGED tmOthers

TmConnectRejected ==
    /\ TmOnPage
    /\ tmOps.connects > 0
    /\ tm' = [tm EXCEPT !.txStatus = "connfailed"]
    /\ tmOps' = [tmOps EXCEPT !.connects = @ - 1]
    /\ UNCHANGED <<shared, tmAtt>>
    /\ UNCHANGED tmOthers

\* useWallet() reports a new activeAccount; the [activeAccount] effect runs
TmActiveAccount(addr) ==
    /\ TmOnPage
    /\ addr # tm.activeAccount
    /\ IF addr # Empty
       THEN /\ BagCardinality(tmOps.refreshes) < MaxRefresh
            /\ tm' = [tm EXCEPT !.activeAccount = addr]
            /\ tmOps' = [tmOps EXCEPT !.refreshes = BagAdd(@, addr)]
            /\ lookups' = lookups \cup {addr}
       ELSE /\ tm' = [tm EXCEPT !.activeAccount = addr, !.balance = Null]
            /\ tmOps' = tmOps
            /\ lookups' = lookups
    /\ UNCHANGED <<sideVars, page, tg, algod, unhandled, alive, closeReq, delivered, timers, verified, tmAtt>>
    /\ UNCHANGED tmOthers

\* the refresh button: refreshBalance up to its await
TmClickRefresh ==
    /\ TmOnPage /\ tm.activeAccount # Empty
    /\ BagCardinality(tmOps.refreshes) < MaxRefresh
    /\ tmOps' = [tmOps EXCEPT !.refreshes = BagAdd(@, tm.activeAccount)]
    /\ lookups' = lookups \cup {tm.activeAccount}
    /\ UNCHANGED <<sideVars, page, tg, algod, unhandled, alive, closeReq, delivered, timers, verified, tm, tmAtt>>
    /\ UNCHANGED tmOthers

\* refreshBalance after await getAccountBalance(address)
refreshBalance(addr, outcome) ==
    /\ TmOnPage
    /\ BagIn(addr, tmOps.refreshes)
    /\ tm' = [tm EXCEPT !.balance = getAccountBalance(outcome)]
    /\ tmOps' = [tmOps EXCEPT !.refreshes = BagRemove(@, addr)]
    /\ verified' = IF outcome = Failure THEN verified ELSE verified \cup {addr}
    /\ UNCHANGED <<sideVars, page, tg, algod, unhandled, alive, closeReq, delivered, timers, lookups, tmAtt>>
    /\ UNCHANGED tmOthers

\* handleDisconnect up to activeWallet.disconnect()
handleDisconnect ==
    /\ TmOnPage /\ tm.activeAccount # Empty
    /\ tmOps.connects + tmOps.disconnects < MaxConnects
    /\ tmOps' = [tmOps EXCEPT !.disconnects = @ + 1]
    /\ UNCHANGED <<shared, tm, tmAtt>>
    /\ UNCHANGED tmOthers

TmDisconnectResolved ==
    /\ TmOnPage
    /\ tmOps.disconnects > 0
    /\ tm' = [tm EXCEPT !.balance = Null, !.txStatus = "null", !.txId = Null]
    /\ tmOps' = [tmOps EXCEPT !.disconnects = @ - 1]
    /\ UNCHANGED <<shared, tmAtt>>
    /\ UNCHANGED tmOthers

\* activeWallet.disconnect() rejected: nothing catches it
TmDisconnectRejected ==
    /\ TmOnPage
    /\ tmOps.disconnects > 0
    /\ tmOps' = [tmOps EXCEPT !.disconnects = @ - 1]
    /\ unhandled' = unhandled \cup {"disconnect"}
    /\ UNCHANGED <<sideVars, page, tg, algod, alive, closeReq, delivered, timers, lookups, verified, tm, tmAtt>>
    /\ UNCHANGED tmOthers

\* amount <input onChange>
TmTypeAmount(v) ==
    /\ TmOnPage /\ tm.activeAccount # Empty
    /\ v # tm.sendAmount
    /\ tm' = [tm EXCEPT !.sendAmount = v]
    /\ UNCHANGED <<shared, tmAtt, tmOps>>
    /\ UNCHANGED tmOthers

\* catch (err) { setTxStatus('Failed') } finally { setLoading(false) }
TmFail(cause) ==
    /\ tm' = [tm EXCEPT !.txStatus = "failed", !.loading = FALSE]
    /\ tmAtt' = [tmAtt EXCEPT !.pc = "idle", !.cause = cause, !.rounds = 0]

handleSendAlgoReuses ==
    /\ TmOnPage /\ tm.activeAccount # Empty
    /\ ~TmSendDisabled
    /\ LET amount == tm.sendAmount
       IN  IF amount = NaN \/ amount <= 0
           THEN /\ tm' = [tm EXCEPT !.txStatus = "invalid"]
                /\ tmAtt' = tmAtt
           ELSE /\ tm.nPayments < MaxPayments
                /\ tm' = [tm EXCEPT !.loading = TRUE,
                                    !.txStatus = IF tmAtt.txn = Null THEN "building"
                                                                     ELSE "signing",
                                    !.txId = Null, !.nPayments = @ + 1]
                /\ tmAtt' = IF tmAtt.txn = Null
                            THEN [TmIdle EXCEPT !.pc = "params", !.n = tm.nPayments + 1,
                                                !.from = tm.activeAccount,
                                                !.amount = amount, !.nParams = 1]
                            ELSE [TmIdle EXCEPT !.pc = "sign", !.n = tm.nPayments + 1,
                                                !.from = tm.activeAccount,
                                                !.amount = amount, !.nSign = 1,
                                                !.micro = tmAtt.micro,
                                                !.params = tmAtt.params,
                                                !.txn = tmAtt.txn]
    /\ UNCHANGED <<shared, tmOps>>
    /\ UNCHANGED tmOthers

\* handleSendAlgo up to buildPaymentTxn's await getTransactionParams()
handleSendAlgo ==
    /\ TmOnPage /\ tm.activeAccount # Empty
    /\ ~TmSendDisabled
    /\ LET amount == tm.sendAmount
       IN  IF amount = NaN \/ amount <= 0
           THEN /\ tm' = [tm EXCEPT !.txStatus = "invalid"]
                /\ tmAtt' = tmAtt
           ELSE /\ tm.nPayments < MaxPayments
                /\ tm' = [tm EXCEPT !.loading = TRUE, !.txStatus = "building",
                                    !.txId = Null, !.nPayments = @ + 1]
                /\ tmAtt' = [TmIdle EXCEPT !.pc = "params", !.n = tm.nPayments + 1,
                                           !.from = tm.activeAccount,
                                           !.amount = amount, !.nParams = 1]
    /\ UNCHANGED <<shared, tmOps>>
    /\ UNCHANGED tmOthers

\* getTransactionParams() resolved: buildPaymentTxn builds the transaction,
\* handleSendAlgo encodes it and calls signTransactions
TmParamsResolved ==
    /\ TmOnPage /\ tmAtt.pc = "params"
    /\ tm' = [tm EXCEPT !.txStatus = "signing"]
    /\ tmAtt' = [tmAtt EXCEPT !.pc = "sign", !.nSign = @ + 1,
                              !.params = tmAtt.n, !.txn = tmAtt.n,
                              !.micro = amountMicroAlgo(tmAtt.amount),
                              !.trace = Append(@, "build")]
    /\ UNCHANGED <<shared, tmOps>>
    /\ UNCHANGED tmOthers

TmParamsRejected ==
    /\ TmOnPage /\ tmAtt.pc = "params"
    /\ TmFail("params")
    /\ UNCHANGED <<shared, tmOps>>
    /\ UNCHANGED tmOthers

\* signTransactions resolved with [entry]; sendRawTransaction(signedTxns[0])
\* is called with it, and throws at once when it is not a byte array
TmSignResolved(entry) ==
    /\ TmOnPage /\ tmAtt.pc = "sign"
    /\ IF entry = "bytes"
       THEN /\ tm' = [tm EXCEPT !.txStatus = "broadcasting"]
            /\ tmAtt' = [tmAtt EXCEPT !.pc = "send", !.nSend = @ + 1,
                                      !.trace = Append(@, "sign")]
       ELSE /\ tm' = [tm EXCEPT !.txStatus = "failed", !.loading = FALSE]
            /\ tmAtt' = [tmAtt EXCEPT !.pc = "idle", !.nSend = @ + 1,
                                      !.cause = "rejected"]
    /\ UNCHANGED <<shared, tmOps>>
    /\ UNCHANGED tmOthers

TmSignRejected ==
    /\ TmOnPage /\ tmAtt.pc = "sign"
    /\ TmFail("rejected")
    /\ UNCHANGED <<shared, tmOps>>
    /\ UNCHANGED tmOthers

TmSendResolvedNoWait ==
    /\ TmOnPage /\ tmAtt.pc = "send"
    /\ tm' = [tm EXCEPT !.txId = tmAtt.n, !.txStatus = "confirmed"]
    /\ tmAtt' = [tmAtt EXCEPT !.pc = "refresh", !.trace = Append(@, "send")]
    /\ UNCHANGED <<shared, tmOps>>
    /\ UNCHANGED tmOthers

\* sendRawTransaction(...).do() resolved with { txId }
TmSendResolved ==
    /\ TmOnPage /\ tmAtt.pc = "send"
    /\ tm' = [tm EXCEPT !.txId = tmAtt.n, !.txStatus = "waiting"]
    /\ tmAtt' = [tmAtt EXCEPT !.pc = "wait", !.trace = Append(@, "send")]
    /\ UNCHANGED <<shared, tmOps>>
    /\ UNCHANGED tmOthers

TmSendRejectedRetries(cause) ==
    /\ TmOnPage /\ tmAtt.pc = "send"
    /\ IF cause = "stale" /\ tmAtt.nSend < 2
       THEN /\ tm' = [tm EXCEPT !.txStatus = "building"]
            /\ tmAtt' = [tmAtt EXCEPT !.pc = "params", !.nParams = @ + 1,
                                      !.trace = <<>>]
       ELSE TmFail(cause)
    /\ UNCHANGED <<shared, tmOps>>
    /\ UNCHANGED tmOthers

TmSendRejected(cause) ==
    /\ TmOnPage /\ tmAtt.pc = "send"
    /\ TmFail(cause)
    /\ UNCHANGED <<shared, tmOps>>
    /\ UNCHANGED tmOthers

TmWaitResolvedNoRefresh ==
    /\ TmOnPage /\ tmAtt.pc = "wait"
    /\ tm' = [tm EXCEPT !.txStatus = "confirmed", !.nConfirmed = @ + 1,
                        !.mbShown = IF tg THEN TRUE ELSE @,
                        !.mbHandlers =
                            IF tg THEN Append(@, [status |-> "success", txId |-> tmAtt.n,
                                                  amount |-> tmAtt.amount,
                                                  from |-> tmAtt.from,
                                                  to |-> DUMMY_RECEIVER])
                                  ELSE @]
    /\ tmAtt' = [tmAtt EXCEPT !.pc = "refresh", !.rounds = 0,
                              !.trace = Append(@, "wait")]
    /\ lookups' = lookups \cup {tmAtt.from}
    /\ UNCHANGED <<sideVars, page, tg, algod, unhandled, alive, closeReq, delivered, timers, verified, tmOps>>
    /\ UNCHANGED tmOthers

TmWaitRoundUnbounded ==
    /\ TmOnPage /\ tmAtt.pc = "wait"
    /\ tmAtt.rounds <= WaitRounds
    /\ tmAtt' = [tmAtt EXCEPT !.rounds = @ + 1]
    /\ UNCHANGED <<shared, tm, tmOps>>
    /\ UNCHANGED tmOthers

\* one round of waitForConfirmation: the transaction is still pending and
\* the next block has arrived (while (currentRound < startRound + waitRounds))
TmWaitRound ==
    /\ TmOnPage /\ tmAtt.pc = "wait"
    /\ tmAtt.rounds < WaitRounds
    /\ tmAtt' = [tmAtt EXCEPT !.rounds = @ + 1]
    /\ UNCHANGED <<shared, tm, tmOps>>
    /\ UNCHANGED tmOthers

\* waitForConfirmation saw the confirmed round in one of its rounds and
\* resolved; refreshBalance() of the same render starts
TmWaitResolved ==
    /\ TmOnPage /\ tmAtt.pc = "wait"
    /\ tmAtt.rounds < WaitRounds
    /\ tm' = [tm EXCEPT !.txStatus = "confirmed", !.nConfirmed = @ + 1]
    /\ tmAtt' = [tmAtt EXCEPT !.pc = "refresh", !.rounds = 0,
                              !.trace = Append(@, "wait")]
    /\ lookups' = lookups \cup {tmAtt.from}
    /\ UNCHANGED <<sideVars, page, tg, algod, unhandled, alive, closeReq, delivered, timers, verified, tmOps>>
    /\ UNCHANGED tmOthers

\* waitForConfirmation rejected: 'not confirmed after 4 rounds' when the
\* rounds are used up ("timeout"), a pool error or a failed request before
\* that ("other")
TmWaitRejected(cause) ==
    /\ TmOnPage /\ tmAtt.pc = "wait"
    /\ cause = "timeout" <=> tmAtt.rounds = WaitRounds
    /\ TmFail(cause)
    /\ UNCHANGED <<shared, tmOps>>
    /\ UNCHANGED tmOthers

TmRefreshedKeepsLoading(outcome) ==
    /\ TmOnPage /\ tmAtt.pc = "refresh"
    /\ tm' = [tm EXCEPT !.balance = getAccountBalance(outcome),
                        !.mbShown = IF tg THEN TRUE ELSE @,
                        !.mbHandlers =
                            IF tg THEN Append(@, TxResult(tmAtt.n, tmAtt.amount, tmAtt.from))
                                  ELSE @]
    /\ tmAtt' = [tmAtt EXCEPT !.pc = "idle", !.trace = Append(@, "refresh")]
    /\ verified' = IF outcome = Failure THEN verified ELSE verified \cup {tmAtt.from}
    /\ UNCHANGED <<sideVars, page, tg, algod, unhandled, alive, closeReq, delivered, timers, lookups, tmOps>>
    /\ UNCHANGED tmOthers

\* await refreshBalance() returned: the main button gets one more click
\* handler; finally setLoading(false)
TmRefreshed(outcome) ==
    /\ TmOnPage /\ tmAtt.pc = "refresh"
    /\ tm' = [tm EXCEPT !.balance = getAccountBalance(outcome),
                        !.loading = FALSE,
                        !.mbShown = IF tg THEN TRUE ELSE @,
                        !.mbHandlers =
                            IF tg THEN Append(@, TxResult(tmAtt.n, tmAtt.amount, tmAtt.from))
                                  ELSE @]
    /\ tmAtt' = [tmAtt EXCEPT !.pc = "idle", !.trace = Append(@, "refresh")]
    /\ verified' = IF outcome = Failure THEN verified ELSE verified \cup {tmAtt.from}
    /\ UNCHANGED <<sideVars, page, tg, algod, unhandled, alive, closeReq, delivered, timers, lookups, tmOps>>
    /\ UNCHANGED tmOthers

\* the host's main button is pressed: every registered click handler runs
\* tg.sendData(...); tg.close()
TmMainButtonClick ==
    /\ TmOnPage /\ tm.mbShown
    /\ tm.nPresses < MaxPresses
    /\ tm' = [tm EXCEPT !.nPresses = @ + 1]
    /\ delivered' = delivered \o tm.mbHandlers
    /\ closeReq' = TRUE
    /\ UNCHANGED <<sideVars, page, tg, algod, unhandled, alive, timers, lookups, verified, tmAtt, tmOps>>
    /\ UNCHANGED tmOthers

TmNext ==
    \/ TmHandleConnect
    \/ TmConnectResolved
    \/ TmConnectRejected
    \/ \E a \in TmAccounts \cup {Empty} : TmActiveAccount(a)
    \/ TmClickRefresh
    \/ \E a \in TmAccounts, o \in LookupOutcomes : refreshBalance(a, o)
    \/ handleDisconnect
    \/ TmDisconnectResolved
    \/ TmDisconnectRejected
    \/ \E v \in SendAmounts : TmTypeAmount(v)
    \/ handleSendAlgo
    \/ TmParamsResolved
    \/ TmParamsRejected
    \/ \E e \in {"bytes", "null"} : TmSignResolved(e)
    \/ TmSignRejected
    \/ TmSendResolved
    \/ \E c \in {"stale", "other"} : TmSendRejected(c)
    \/ TmWaitRound
    \/ TmWaitResolved
    \/ \E c \in {"timeout", "other"} : TmWaitRejected(c)
    \/ \E o \in LookupOutcomes : TmRefreshed(o)
    \/ TmMainButtonClick

---------------------------------------------------------------------------
(* webapp/src/App.jsx SignSwapMode *)

\* pending transactions the backend can return (amount_algo in tenths of a
\* microAlgo, sender '' when the user has no connected wallet; the page
\* checks nothing else about what the backend sent)
TxDatas == {[sender |-> AddrB, receiver |-> AddrA, amount_algo |-> 1000000],
            [sender |-> Empty, receiver |-> AddrA, amount_algo |-> 1000000],
            [sender |-> AddrB, receiver |-> BadSum, amount_algo |-> 1000000]}

NoTxData == [sender |-> Empty, receiver |-> Empty, amount_algo |-> NaN]

\* the fetch effect has run at mount: once, or twice under React.StrictMode
\* in a development build, which tears the component down after its first
\* mount and mounts it again; the effect has no cleanup, so the fetch of the
\* torn-down mount stays pending.  applied counts the fetches whose settlement
\* updated the component state.
SsNoPtx ==
    [status |-> "error", txData |-> NoTxData, errorMsg |-> "noptx",
     txId |-> Null, sentRef |-> FALSE, injected |-> FALSE, fetches |-> 0,
     applied |-> 0, erred |-> TRUE]

SsInit ==
    /\ ss \in IF page # "sign_swap" THEN {SsNoPtx}
              ELSE {SsNoPtx} \cup
                   {[status |-> "loading", txData |-> NoTxData, errorMsg |-> "",
                     txId |-> Null, sentRef |-> FALSE, injected |-> inj,
                     fetches |-> f, applied |-> 0,
                     erred |-> FALSE] :
                        inj \in BOOLEAN, f \in 1..MaxFetches}
    /\ ssAtt = <<>>

SsOnPage == page = "sign_swap" /\ alive

SwapSigned(txId, amount) ==
    [action |-> "onchain_action_signed", tx_id |-> txId, amount_algo |-> amount]

\* fetch(...).then(r => r.json()).then(data => { ... setStatus('ready') })
SsFetchResolved(data) ==
    /\ SsOnPage
    /\ ss.fetches > 0
    /\ ss' = [ss EXCEPT !.txData = data, !.status = "ready", !.fetches = @ - 1,
                        !.applied = @ + 1]
    /\ UNCHANGED <<shared, ssAtt>>
    /\ UNCHANGED ssOthers

\* the fetch failed, the response was not ok, or the body was not usable
SsFetchRejected ==
    /\ SsOnPage
    /\ ss.fetches > 0
    /\ ss' = [ss EXCEPT !.errorMsg = "load", !.status = "error",
                        !.erred = TRUE, !.fetches = @ - 1,
                        !.applied = @ + 1]
    /\ UNCHANGED <<shared, ssAtt>>
    /\ UNCHANGED ssOthers

SsAttempt(pc) ==
    [pc |-> pc, data |-> ss.txData, trace |-> <<>>, nSend |-> 0, nParams |-> 0,
     nSign |-> 0, params |-> Null, txn |-> Null, rounds |-> 0,
     cause |-> "none", result |-> "none"]

\* setErrorMsg(msg); setStatus('error'); the attempt ends
SsFail(i, msg, cause) ==
    /\ ss' = [ss EXCEPT !.errorMsg = msg, !.status = "error", !.erred = TRUE]
    /\ ssAtt' = [ssAtt EXCEPT ![i].pc = "done", ![i].cause = cause,
                              ![i].result = "error", ![i].rounds = 0]

\* handleSign up to await getTransactionParams().do()
\* (the button is rendered only while status === 'ready', and then txData is
\* set; with no algodClient the handler returns without effect)
handleSign ==
    /\ SsOnPage /\ ss.status = "ready"
    /\ algod
    /\ IF ss.txData.sender = Empty
       THEN /\ ss' = [ss EXCEPT !.errorMsg = "nosender", !.status = "error", !.erred = TRUE]
            /\ ssAtt' = Append(ssAtt, [SsAttempt("done") EXCEPT !.cause = "nosender",
                                                              !.result = "error"])
       ELSE /\ ss' = [ss EXCEPT !.errorMsg = "", !.status = "signing"]
            /\ ssAtt' = Append(ssAtt, [SsAttempt("params") EXCEPT !.nParams = 1])
    /\ UNCHANGED shared
    /\ UNCHANGED ssOthers

SsParamsResolvedUnchecked(i) ==
    /\ SsOnPage /\ i \in DOMAIN ssAtt /\ ssAtt[i].pc = "params"
    /\ IF ~ss.injected
       THEN /\ ss' = [ss EXCEPT !.errorMsg = "nolute", !.status = "error", !.erred = TRUE]
            /\ ssAtt' = [ssAtt EXCEPT ![i].pc = "done", ![i].cause = "nolute",
                                      ![i].result = "error",
                                      ![i].trace = Append(@, "build")]
       ELSE /\ ss' = ss
            /\ ssAtt' = [ssAtt EXCEPT ![i].pc = "enable",
                                      ![i].trace = Append(@, "build")]
    /\ UNCHANGED shared
    /\ UNCHANGED ssOthers

\* getTransactionParams resolved: build the transaction
\* (makePaymentTxnWithSuggestedParamsFromObject decodes from and to, and
\* throws when one of them is not an address), then look for the injected
\* wallet object and call enable
SsParamsResolved(i) ==
    /\ SsOnPage /\ i \in DOMAIN ssAtt /\ ssAtt[i].pc = "params"
    /\ IF ~(decodeAddress(ssAtt[i].data.sender) /\ decodeAddress(ssAtt[i].data.receiver))
       THEN /\ ss' = [ss EXCEPT !.errorMsg = "failed", !.status = "error", !.erred = TRUE]
            /\ ssAtt' = [ssAtt EXCEPT ![i].pc = "done", ![i].cause = "address",
                                      ![i].result = "error", ![i].params = i]
       ELSE IF ~ss.injected
       THEN /\ ss' = [ss EXCEPT !.errorMsg = "nolute", !.status = "error", !.erred = TRUE]
            /\ ssAtt' = [ssAtt EXCEPT ![i].pc = "done", ![i].cause = "nolute",
                                      ![i].result = "error",
                                      ![i].params = i, ![i].txn = i,
                                      ![i].trace = Append(@, "build")]
       ELSE /\ ss' = ss
            /\ ssAtt' = [ssAtt EXCEPT ![i].pc = "enable",
                                      ![i].params = i, ![i].txn = i,
                                      ![i].trace = Append(@, "build")]
    /\ UNCHANGED shared
    /\ UNCHANGED ssOthers

SsParamsRejected(i) ==
    /\ SsOnPage /\ i \in DOMAIN ssAtt /\ ssAtt[i].pc = "params"
    /\ SsFail(i, "failed", "params")
    /\ UNCHANGED shared
    /\ UNCHANGED ssOthers

\* window.algorand.enable resolved: signTxns is called
SsEnableResolved(i) ==
    /\ SsOnPage /\ i \in DOMAIN ssAtt /\ ssAtt[i].pc = "enable"
    /\ ssAtt' = [ssAtt EXCEPT ![i].pc = "sign", ![i].nSign = @ + 1,
                              ![i].trace = Append(@, "enable")]
    /\ UNCHANGED <<shared, ss>>
    /\ UNCHANGED ssOthers

SsEnableRejectedSigns(i) ==
    /\ SsOnPage /\ i \in DOMAIN ssAtt /\ ssAtt[i].pc = "enable"
    /\ ssAtt' = [ssAtt EXCEPT ![i].pc = "sign", ![i].nSign = @ + 1,
                              ![i].cause = "enable"]
    /\ UNCHANGED <<shared, ss>>
    /\ UNCHANGED ssOthers

\* window.algorand.enable rejected: the inner catch shows the error and
\* returns
SsEnableRejected(i) ==
    /\ SsOnPage /\ i \in DOMAIN ssAtt /\ ssAtt[i].pc = "enable"
    /\ SsFail(i, "approve", "enable")
    /\ UNCHANGED shared
    /\ UNCHANGED ssOthers

\* signTxns resolved with nothing ("none"), [null] ("null") or [base64]
SsSignResolved(i, result) ==
    /\ SsOnPage /\ i \in DOMAIN ssAtt /\ ssAtt[i].pc = "sign"
    /\ IF result # "bytes"
       THEN SsFail(i, "rejected", "rejected")
       ELSE /\ ss' = ss
            /\ ssAtt' = [ssAtt EXCEPT ![i].pc = "send", ![i].nSend = @ + 1,
                                      ![i].trace = Append(@, "sign")]
    /\ UNCHANGED shared
    /\ UNCHANGED ssOthers

SsSignRejectedRetries(i) ==
    /\ SsOnPage /\ i \in DOMAIN ssAtt /\ ssAtt[i].pc = "sign"
    /\ IF ssAtt[i].nSign < 2
       THEN /\ ss' = ss
            /\ ssAtt' = [ssAtt EXCEPT ![i].nSign = @ + 1]
       ELSE SsFail(i, "failed", "rejected")
    /\ UNCHANGED shared
    /\ UNCHANGED ssOthers

\* signTxns rejected: the catch block shows the error
SsSignRejected(i) ==
    /\ SsOnPage /\ i \in DOMAIN ssAtt /\ ssAtt[i].pc = "sign"
    /\ SsFail(i, "failed", "rejected")
    /\ UNCHANGED shared
    /\ UNCHANGED ssOthers

\* sendRawTransaction(signedBytes).do() resolved with a transaction id
SsSendResolved(i) ==
    /\ SsOnPage /\ i \in DOMAIN ssAtt /\ ssAtt[i].pc = "send"
    /\ ssAtt' = [ssAtt EXCEPT ![i].pc = "wait", ![i].trace = Append(@, "send")]
    /\ UNCHANGED <<shared, ss>>
    /\ UNCHANGED ssOthers

SsSendRejected(i, cause) ==
    /\ SsOnPage /\ i \in DOMAIN ssAtt /\ ssAtt[i].pc = "send"
    /\ SsFail(i, "failed", cause)
    /\ UNCHANGED shared
    /\ UNCHANGED ssOthers

\* if (tg && !sentRef.current)
SsMaySend(hasTg, sent) == hasTg /\ ~sent

\* one round of waitForConfirmation(algodClient, confirmedTxId, 4)
SsWaitRound(i) ==
    /\ SsOnPage /\ i \in DOMAIN ssAtt /\ ssAtt[i].pc = "wait"
    /\ ssAtt[i].rounds < WaitRounds
    /\ ssAtt' = [ssAtt EXCEPT ![i].rounds = @ + 1]
    /\ UNCHANGED <<shared, ss>>
    /\ UNCHANGED ssOthers

\* waitForConfirmation(algodClient, confirmedTxId, 4) resolved
SsWaitResolved(i) ==
    /\ SsOnPage /\ i \in DOMAIN ssAtt /\ ssAtt[i].pc = "wait"
    /\ ssAtt[i].rounds < WaitRounds
    /\ LET send == SsMaySend(tg, ss.sentRef)
       IN  /\ ss' = [ss EXCEPT !.txId = i, !.status = "success",
                               !.sentRef = IF send THEN TRUE ELSE @]
           /\ timers' = IF send
                        THEN Append(timers, SwapSigned(i, ssAtt[i].data.amount_algo))
                        ELSE timers
    /\ ssAtt' = [ssAtt EXCEPT ![i].pc = "done", ![i].result = "success",
                              ![i].rounds = 0,
                              ![i].trace = Append(@, "wait")]
    /\ UNCHANGED <<sideVars, page, tg, algod, unhandled, alive, closeReq, delivered, lookups, verified>>
    /\ UNCHANGED ssOthers

SsWaitRejectedResubmits(i, cause) ==
    /\ SsOnPage /\ i \in DOMAIN ssAtt /\ ssAtt[i].pc = "wait"
    /\ cause = "timeout" <=> ssAtt[i].rounds = WaitRounds
    /\ IF cause = "timeout" /\ ssAtt[i].nSend < 2
       THEN /\ ss' = ss
            /\ ssAtt' = [ssAtt EXCEPT ![i].pc = "send", ![i].nSend = @ + 1,
                                      ![i].cause = "timeout", ![i].rounds = 0,
                                      ![i].trace = <<"build", "enable", "sign">>]
       ELSE SsFail(i, "failed", cause)
    /\ UNCHANGED shared
    /\ UNCHANGED ssOthers

SsWaitRejected(i, cause) ==
    /\ SsOnPage /\ i \in DOMAIN ssAtt /\ ssAtt[i].pc = "wait"
    /\ cause = "timeout" <=> ssAtt[i].rounds = WaitRounds
    /\ SsFail(i, "failed", cause)
    /\ UNCHANGED shared
    /\ UNCHANGED ssOthers

\* the Cancel button: tg.close() or window.close()
SsCancel ==
    /\ SsOnPage /\ ss.status = "ready"
    /\ ~closeReq
    /\ closeReq' = TRUE
    /\ UNCHANGED <<sideVars, page, tg, algod, unhandled, alive, delivered, timers, lookups, verified, ss, ssAtt>>
    /\ UNCHANGED ssOthers

SsNext ==
    \/ \E d \in TxDatas : SsFetchResolved(d)
    \/ SsFetchRejected
    \/ handleSign
    \/ SsCancel
    \/ \E i \in DOMAIN ssAtt :
        \/ SsParamsResolved(i)
        \/ SsParamsRejected(i)
        \/ SsEnableResolved(i)
        \/ SsEnableRejected(i)
        \/ \E r \in {"none", "null", "bytes"} : SsSignResolved(i, r)
        \/ SsSignRejected(i)
        \/ SsSendResolved(i)
        \/ \E c \in {"stale", "other"} : SsSendRejected(i, c)
        \/ SsWaitRound(i)
        \/ SsWaitResolved(i)
        \/ \E c \in {"timeout", "other"} : SsWaitRejected(i, c)

---------------------------------------------------------------------------
(* unnamed/part_005 DexScreener wallet state and WalletPanel *)

\* useState(() => localStorage.getItem('x10v_wallet') || '') and the
\* [walletAddress] effect of the first render
WpInit ==
    /\ \E stored \in (IF page = "dex" THEN {Empty, AddrA} ELSE {Empty}) :
          /\ wp = [input |-> Empty, checking |-> FALSE, error |-> "",
                   walletAddress |-> stored, walletBalance |-> Null,
                   storage |-> stored, nConnects |-> 0,
                   lastOk |-> stored,
                   last |-> IF stored = Empty THEN "none" ELSE "connect"]
          /\ wpOps = [connect |-> Empty,
                      effects |-> IF stored = Empty THEN EmptyBag
                                                    ELSE SetToBag({stored})]

WpOnPage == page = "dex"

\* <input onChange> (the form is rendered while walletAddress is '')
WpTypeInput(text) ==
    /\ WpOnPage /\ wp.walletAddress = Empty
    /\ wp' = [wp EXCEPT !.input = text, !.error = ""]
    /\ UNCHANGED <<shared, wpOps>>
    /\ UNCHANGED wpOthers

\* if (!addr || addr.length !== 58)
WpRejects(addr) == addr = <<>> \/ Len(addr) # AddrLen

\* connectWallet up to await fetch(...)
connectWallet ==
    /\ WpOnPage /\ wp.walletAddress = Empty
    /\ ~wp.checking /\ trim(wp.input) # <<>>
    /\ LET addr == trim(wp.input)
       IN  IF WpRejects(addr)
           THEN /\ wp' = [wp EXCEPT !.error = "invalid"]
                /\ wpOps' = wpOps
                /\ lookups' = lookups
           ELSE /\ wp.nConnects < MaxPanelConnects
                /\ wp' = [wp EXCEPT !.checking = TRUE, !.error = "",
                                    !.nConnects = @ + 1]
                /\ wpOps' = [wpOps EXCEPT !.connect = addr]
                /\ lookups' = lookups \cup {addr}
    /\ UNCHANGED <<sideVars, page, tg, algod, unhandled, alive, closeReq, delivered, timers, verified>>
    /\ UNCHANGED wpOthers

\* the balance endpoint answered ok with a JSON body; the [walletAddress]
\* effect then fetches the balance once more
WpConnectResolved ==
    /\ WpOnPage /\ wpOps.connect # Empty
    /\ LET addr == wpOps.connect
       IN  /\ wp' = [wp EXCEPT !.walletAddress = addr, !.walletBalance = 0,
                               !.storage = addr, !.checking = FALSE,
                               !.lastOk = addr, !.last = "connect"]
           /\ wpOps' = [wpOps EXCEPT !.connect = Empty,
                                     !.effects = IF wp.walletAddress = addr
                                                 THEN @ ELSE BagAdd(@, addr)]
           /\ verified' = verified \cup {addr}
    /\ UNCHANGED <<sideVars, page, tg, algod, unhandled, alive, closeReq, delivered, timers, lookups>>
    /\ UNCHANGED wpOthers

WpConnectRejectedStores ==
    /\ WpOnPage /\ wpOps.connect # Empty
    /\ wp' = [wp EXCEPT !.error = "verify", !.checking = FALSE,
                        !.storage = wpOps.connect]
    /\ wpOps' = [wpOps EXCEPT !.connect = Empty]
    /\ UNCHANGED shared
    /\ UNCHANGED wpOthers

\* the fetch failed, the answer was not ok, or its body did not parse
WpConnectRejected ==
    /\ WpOnPage /\ wpOps.connect # Empty
    /\ wp' = [wp EXCEPT !.error = "verify", !.checking = FALSE]
    /\ wpOps' = [wpOps EXCEPT !.connect = Empty]
    /\ UNCHANGED shared
    /\ UNCHANGED wpOthers

disconnectWallet ==
    /\ WpOnPage /\ wp.walletAddress # Empty
    /\ wp' = [wp EXCEPT !.walletAddress = Empty, !.walletBalance = Null,
                        !.storage = Empty, !.last = "disconnect"]
    /\ UNCHANGED <<shared, wpOps>>
    /\ UNCHANGED wpOthers

\* the effect's fetch settled: setWalletBalance(d) when it produced a body
WpEffectSettled(addr, ok) ==
    /\ WpOnPage /\ BagIn(addr, wpOps.effects)
    /\ wp' = [wp EXCEPT !.walletBalance = IF ok THEN 0 ELSE @]
    /\ wpOps' = [wpOps EXCEPT !.effects = BagRemove(@, addr)]
    /\ UNCHANGED shared
    /\ UNCHANGED wpOthers

WpNext ==
    \/ \E text \in Inputs : WpTypeInput(text)
    \/ connectWallet
    \/ WpConnectResolved
    \/ WpConnectRejected
    \/ disconnectWallet
    \/ \E a \in Candidates, ok \in BOOLEAN : WpEffectSettled(a, ok)

---------------------------------------------------------------------------
Pages == {"connect_paste", "connect_ext", "transact", "sign_swap", "dex"}

\* the Dashboard before its mount effect has run: both refs are null
DashIdle == [mounted |-> "no", sockets |-> <<>>, wsRef |-> 0, reconnectTimer |-> 0,
             pending |-> {}, interval |-> FALSE, isConnected |-> FALSE,
             fetching |-> 0, tasks |-> "none"]

\* no validator call of its own is in progress on a page
NoVerdict == [algo |-> "none", algorand |-> "none"]

PageInit ==
    /\ page \in Pages
    /\ tg \in (IF page = "dex" THEN {FALSE} ELSE BOOLEAN)
    /\ algod \in (IF page = "connect_paste" THEN BOOLEAN ELSE {TRUE})
    /\ alive = TRUE
    /\ closeReq = FALSE
    /\ delivered = <<>>
    /\ timers = <<>>
    /\ lookups = {}
    /\ verified = {}
    /\ unhandled = {}
    /\ CmInit
    /\ XcInit
    /\ TmInit
    /\ SsInit
    /\ WpInit

Init ==
    /\ candidate = Empty
    /\ verdict = NoVerdict
    /\ dash = DashIdle
    /\ PageInit

Next ==
    \/ TimerFire
    \/ TimerThrows
    \/ HostTeardown
    \/ CmNext
    \/ XcNext
    \/ TmNext
    \/ SsNext
    \/ WpNext

Spec == Init /\ [][Next]_vars

\* What the event loop and the collaborators other than the signer bring
\* about by themselves: due timer callbacks, and the settling of clipboard
\* reads, wallet connection calls and network requests.  The user's input and
\* the signer's answer are not among them.  The rounds of waitForConfirmation
\* and the error it throws when they are used up belong here: the library
\* produces them with no one's help.
Settles ==
    \/ TimerFire
    \/ TimerThrows
    \/ \E text \in Inputs : CmPasteResolved(text)
    \/ \E a \in Candidates, amount \in LedgerAmounts : CmLookupResolved(a, amount)
    \/ XcConnectResolved
    \/ \E text \in Inputs : XcPasteResolved(text)
    \/ \E a \in Candidates, o \in LookupOutcomes : XcSendWalletData(a, o)
    \/ \E a \in Candidates, amount \in LedgerAmounts : XcManualResolved(a, amount)
    \/ TmConnectResolved
    \/ TmDisconnectResolved
    \/ \E a \in TmAccounts, o \in LookupOutcomes : refreshBalance(a, o)
    \/ TmParamsResolved
    \/ TmSendResolved
    \/ TmWaitRound
    \/ TmWaitResolved
    \/ TmWaitRejected("timeout")
    \/ \E o \in LookupOutcomes : TmRefreshed(o)
    \/ \E d \in TxDatas : SsFetchResolved(d)
    \/ \E i \in DOMAIN ssAtt :
        \/ SsParamsResolved(i)
        \/ SsEnableResolved(i)
        \/ SsSendResolved(i)
        \/ SsWaitRound(i)
        \/ SsWaitResolved(i)
        \/ SsWaitRejected(i, "timeout")
    \/ WpConnectResolved
    \/ \E a \in Candidates, ok \in BOOLEAN : WpEffectSettled(a, ok)

LiveSpec == Spec /\ WF_vars(Settles)

\* The settling, either way, of the calls a payment attempt awaits:
\* getTransactionParams, the signer (signTransactions; enable and signTxns),
\* sendRawTransaction, waitForConfirmation and, in handleSendAlgo, the closing
\* refreshBalance.
AttemptSettles ==
    \/ TmParamsResolved
    \/ TmParamsRejected
    \/ \E e \in {"bytes", "null"} : TmSignResolved(e)
    \/ TmSignRejected
    \/ TmSendResolved
    \/ \E c \in {"stale", "other"} : TmSendRejected(c)
    \/ TmWaitRound
    \/ TmWaitResolved
    \/ \E c \in {"timeout", "other"} : TmWaitRejected(c)
    \/ \E o \in LookupOutcomes : TmRefreshed(o)
    \/ \E i \in DOMAIN ssAtt :
        \/ SsParamsResolved(i)
        \/ SsParamsRejected(i)
        \/ SsEnableResolved(i)
        \/ SsEnableRejected(i)
        \/ \E r \in {"none", "null", "bytes"} : SsSignResolved(i, r)
        \/ SsSignRejected(i)
        \/ SsSendResolved(i)
        \/ \E c \in {"stale", "other"} : SsSendRejected(i, c)
        \/ SsWaitRound(i)
        \/ SsWaitResolved(i)
        \/ \E c \in {"timeout", "other"} : SsWaitRejected(i, c)

\* The two pages that make payments, loaded on their own.
AttemptInit == Init /\ page \in {"transact", "sign_swap"}

AttemptNext ==
    \/ TimerFire
    \/ TimerThrows
    \/ HostTeardown
    \/ TmNext
    \/ SsNext

\* every awaited call of an attempt in flight eventually settles
AttemptSpec == AttemptInit /\ [][AttemptNext]_vars /\ WF_vars(AttemptSettles)

---------------------------------------------------------------------------
(* The address validators on their own: a candidate string is handed to     *)
(* isValidAlgoAddress (App.jsx) and to isValidAlgorandAddress (part_003,    *)
(* part_002), and what each call returns is recorded.                      *)

\* every string that differs from addr in exactly one position
OneCharChanged(addr) ==
    {[addr EXCEPT ![i] = c] : i \in 1..Len(addr), c \in 0..Base} \ {addr}

ValInputs ==
    {Empty} \cup Inputs \cup OneCharChanged(AddrA) \cup OneCharChanged(AddrB)

\* return true / return false
Returned(b) == IF b THEN "true" ELSE "false"

ValidateAlgo ==
    /\ verdict.algo = "none"
    /\ verdict' = [verdict EXCEPT !.algo = Returned(isValidAlgoAddress(candidate))]
    /\ UNCHANGED <<candidate, dash, page, tg, algod, unhandled, alive, closeReq,
                   delivered, timers, lookups, verified, pageVars>>

ValidateAlgorand ==
    /\ verdict.algorand = "none"
    /\ verdict' =
           [verdict EXCEPT !.algorand = Returned(isValidAlgorandAddress(candidate))]
    /\ UNCHANGED <<candidate, dash, page, tg, algod, unhandled, alive, closeReq,
                   delivered, timers, lookups, verified, pageVars>>

ValidatorInit ==
    /\ candidate \in ValInputs
    /\ verdict = NoVerdict
    /\ dash = DashIdle
    /\ PageInit

ValidatorNext == ValidateAlgo \/ ValidateAlgorand

ValidatorSpec == ValidatorInit /\ [][ValidatorNext]_vars

----------------------------------------------------------------------------
(* frontend/src/components/Dashboard.jsx: the terminal's WebSocket.  Each    *)
(* socket is a record: its readyState, and whether it was created after the *)
(* component had been unmounted.  A reconnect timer is named by the socket   *)
(* whose close event set it.  The log lines are not part of the state.       *)

dashOthers == <<valVars, page, tg, algod, unhandled, alive, closeReq, delivered, timers,
                lookups, verified, pageVars>>

\* connectWs: nothing when the current socket is OPEN; otherwise a new
\* WebSocket, with its handlers, becomes wsRef.current
connectWs(d) ==
    IF d.wsRef # 0 /\ d.sockets[d.wsRef].state = "open"
    THEN d
    ELSE [d EXCEPT !.sockets = Append(@, [state |-> "connecting",
                                         late |-> d.mounted = "gone"]),
                   !.wsRef = Len(d.sockets) + 1]

\* connectWs can run: it returns at once, or there is room for one more socket
MayConnect(d) ==
    \/ d.wsRef # 0 /\ d.sockets[d.wsRef].state = "open"
    \/ Len(d.sockets) < MaxSockets

\* ws.close(): a socket that is connecting or open starts closing
WsCloseCall(sockets, i) ==
    IF i # 0 /\ sockets[i].state \in {"connecting", "open"}
    THEN [sockets EXCEPT ![i].state = "closing"]
    ELSE sockets

\* the mount effect: connectWs(); fetchTasks(); setInterval(fetchTasks, 5000)
DashMount ==
    /\ dash.mounted = "no"
    /\ dash' = [connectWs([dash EXCEPT !.mounted = "yes"]) EXCEPT !.interval = TRUE,
                                                                 !.fetching = @ + 1]
    /\ UNCHANGED dashOthers

\* the effect's cleanup: clearInterval, clearTimeout(reconnectTimer.current),
\* wsRef.current?.close()
DashUnmount ==
    /\ dash.mounted = "yes"
    /\ dash' = [dash EXCEPT !.mounted = "gone",
                            !.interval = FALSE,
                            !.pending = @ \ {dash.reconnectTimer},
                            !.sockets = WsCloseCall(@, dash.wsRef)]
    /\ UNCHANGED dashOthers

\* ws.onopen
WsOpen(i) ==
    /\ i \in DOMAIN dash.sockets /\ dash.sockets[i].state = "connecting"
    /\ dash' = [dash EXCEPT !.sockets[i].state = "open", !.isConnected = TRUE]
    /\ UNCHANGED dashOthers

\* ws.onerror: ws.close()
WsError(i) ==
    /\ i \in DOMAIN dash.sockets /\ dash.sockets[i].state \in {"connecting", "open"}
    /\ dash' = [dash EXCEPT !.sockets = WsCloseCall(@, i)]
    /\ UNCHANGED dashOthers

\* ws.onclose, after the server closed the connection or a close begun by
\* close() completed: reconnectTimer.current = setTimeout(connectWs, 3000)
WsClose(i) ==
    /\ i \in DOMAIN dash.sockets /\ dash.sockets[i].state \in {"open", "closing"}
    /\ dash' = [dash EXCEPT !.sockets[i].state = "closed",
                            !.isConnected = FALSE,
                            !.reconnectTimer = i,
                            !.pending = @ \cup {i}]
    /\ UNCHANGED dashOthers

\* a reconnect timer is due: connectWs runs
ReconnectFires(t) ==
    /\ t \in dash.pending
    /\ MayConnect(dash)
    /\ dash' = connectWs([dash EXCEPT !.pending = @ \ {t}])
    /\ UNCHANGED dashOthers

\* the interval is due: fetchTasks() requests the task list
IntervalTick ==
    /\ dash.interval
    /\ dash.fetching < MaxTaskFetches
    /\ dash' = [dash EXCEPT !.fetching = @ + 1]
    /\ UNCHANGED dashOthers

\* fetchTasks after its await: setTasks(data) when the response is ok;
\* a failure is swallowed
TasksSettled(ok) ==
    /\ dash.fetching > 0
    /\ dash' = [dash EXCEPT !.fetching = @ - 1,
                            !.tasks = IF ok THEN "loaded" ELSE @]
    /\ UNCHANGED dashOthers

\* the Dashboard is served on its own: none of the wallet pages is loaded
DashInit == Init /\ page = "dex" /\ wp.storage = Empty

DashNext ==
    \/ DashMount
    \/ DashUnmount
    \/ \E i \in DOMAIN dash.sockets : WsOpen(i) \/ WsError(i) \/ WsClose(i)
    \/ \E t \in dash.pending : ReconnectFires(t)
    \/ IntervalTick
    \/ \E ok \in BOOLEAN : TasksSettled(ok)

DashSpec == DashInit /\ [][DashNext]_vars

---------------------------------------------------------------------------
(* Claims *)

\* exact length 58 and successful checksum decode
PassesValidator(addr) == Len(addr) = AddrLen /\ decodeAddress(addr)

NumWalletConnected ==
    Cardinality({i \in DOMAIN delivered : delivered[i].action = "wallet_connected"})

\* every payload given to sendData or waiting in a timer
Payloads == {delivered[i] : i \in DOMAIN delivered} \cup {timers[i] : i \in DOMAIN timers}

\* C1: in the paste-based ConnectMode sendData receives a wallet_connected
\* payload at most once per page load, however many verifications succeed
C1_SendDataAtMostOnce ==
    page = "connect_paste" => NumWalletConnected <= 1

C1_Witness ==
    /\ page = "connect_paste"
    /\ cm.nSuccess >= 2
    /\ Len(delivered) = 1

\* C2: in TransactMode the transaction-result envelope is given to sendData
\* at most once per session, for any number of confirmed payments and any
\* number of presses of the host main button
C2_TxResultAtMostOnce ==
    page = "transact" => Len(delivered) <= 1

\* C3: a signing attempt in which the signing authority rejects (the call
\* rejects, returns nothing, or returns a null entry) never calls
\* sendRawTransaction
C3_RejectedNeverSubmits ==
    /\ page = "transact" => (tmAtt.cause = "rejected" => tmAtt.nSend = 0)
    /\ page = "sign_swap" =>
          \A i \in DOMAIN ssAtt : ssAtt[i].cause = "rejected" => ssAtt[i].nSend = 0

\* C4: no externally supplied address reaches an account / balance lookup or
\* is recorded as the connected wallet (delivered, shown as connected, kept
\* in the durable cache) unless it passed the address validator
C4_OnlyValidatedAddresses ==
    /\ \A a \in lookups : PassesValidator(a)
    /\ \A p \in Payloads : p.action = "wallet_connected" => PassesValidator(p.address)
    /\ wp.walletAddress # Empty => PassesValidator(wp.walletAddress)
    /\ wp.storage # Empty => PassesValidator(wp.storage)

\* C5: in manual entry (typed or pasted text) accountInformation is never
\* called for an input whose trimmed value fails the validator
C5_NoLookupForInvalidInput ==
    page \in {"connect_paste", "connect_ext"} =>
        \A a \in lookups : PassesValidator(a)

\* the input "A" was submitted: an error is shown and no lookup was made
C5_Witness ==
    /\ page = "connect_paste"
    /\ cm.address = TooShort
    /\ cm.status = "error" /\ cm.errorMsg = "invalid"
    /\ lookups = {}
    /\ cmOps.lookups = EmptyBag

\* C6: in the connect flow with extension and manual entry, wallet_connected
\* is delivered to the host at most once per session, also when an extension
\* account event and a manual submission both succeed
C6_WalletConnectedOnce ==
    page = "connect_ext" => NumWalletConnected <= 1

TmFull == <<"build", "sign", "send", "wait">>
SsFull == <<"build", "enable", "sign", "send", "wait">>

C8_Step ==
    /\ (tm'.txStatus = "confirmed" /\ tm.txStatus # "confirmed") =>
          (tmAtt.pc = "wait" /\ tmAtt.trace = <<"build", "sign", "send">>)
    /\ Len(tm'.mbHandlers) > Len(tm.mbHandlers) => tmAtt.trace = TmFull
    /\ (tmAtt.pc # "idle" /\ tmAtt'.pc = "idle") =>
          (tm'.txStatus = "failed" \/ tmAtt'.trace = Append(TmFull, "refresh"))
    /\ (page = "sign_swap" /\
        ((ss'.status = "success" /\ ss.status # "success")
            \/ Len(timers') > Len(timers))) =>
          \E i \in DOMAIN ssAtt :
              /\ ssAtt[i].pc = "wait" /\ ssAtt'[i].pc = "done"
              /\ ssAtt'[i].trace = SsFull
    /\ \A i \in DOMAIN ssAtt' :
          (ssAtt'[i].pc = "done" /\ (i \notin DOMAIN ssAtt \/ ssAtt[i].pc # "done")) =>
              (ss'.status = "error" \/ ssAtt'[i].trace = SsFull)

\* C8: within one signing session the stages run in the order build,
\* signature request, sendRawTransaction, waitForConfirmation, success:
\* success and the result envelope come only after the submission returned
\* and the confirmation resolved; every other attempt ends in an error state
C8_StagesInOrder == [][C8_Step]_vars

C8_Witness ==
    /\ page = "sign_swap"
    /\ ss.status = "success"
    /\ Len(delivered) = 1
    /\ \E i \in DOMAIN ssAtt : ssAtt[i].result = "success"

C10_Step ==
    /\ (tmAtt'.cause = "timeout" /\ tmAtt.cause # "timeout") =>
          /\ tmAtt.pc = "wait"
          /\ tm'.txStatus = "failed" /\ ~tm'.loading
    /\ tmAtt'.cause = "timeout" =>
          (tmAtt'.pc = "idle" /\ tmAtt'.nSend = 1)
    /\ \A i \in DOMAIN ssAtt :
          /\ (ssAtt'[i].cause = "timeout" /\ ssAtt[i].cause # "timeout") =>
                /\ ssAtt[i].pc = "wait"
                /\ ss'.status = "error" /\ ss'.errorMsg = "failed"
          /\ ssAtt'[i].cause = "timeout" =>
                (ssAtt'[i].pc = "done" /\ ssAtt'[i].nSend = 1)

---------------------------------------------------------------------------
\* the page waits for the signer's answer to a signature request
AwaitingSignature ==
    /\ alive
    /\ \/ page = "transact" /\ tmAtt.pc = "sign"
       \/ page = "sign_swap" /\ \E i \in DOMAIN ssAtt : ssAtt[i].pc = "sign"

\* C11: a session that waits for a signature does not wait forever: even
\* when the signer never answers, it leaves the awaiting-signature state
\* (signing timeout).
C11_SigningTimesOut == AwaitingSignature ~> ~AwaitingSignature

\* C12: getTransactionParams is requested only for a payment whose amount
\* in micro-units is positive; an amount of zero or fewer micro-units is
\* refused with "invalid amount" before any network call.
C12_NoParamsForNonPositiveMicro ==
    (page = "transact" /\ tmAtt.nParams > 0) => amountMicroAlgo(tmAtt.amount) > 0

\* C14: the amount of a built payment is the requested amount exactly
\* (sendAmount is kept in tenths of a micro-unit).
C14_BuiltAmountExact ==
    (page = "transact" /\ \E k \in DOMAIN tmAtt.trace : tmAtt.trace[k] = "build")
        => tmAtt.micro * 10 = tmAtt.amount

SsAddressesValid(i) ==
    decodeAddress(ssAtt[i].data.sender) /\ decodeAddress(ssAtt[i].data.receiver)

CmInvalidSubmitted ==
    /\ page = "connect_paste"
    /\ cm'.errorMsg = "invalid"
    /\ cm.errorMsg # "invalid" \/ cm'.invalidAt # cm.invalidAt

C16_Step ==
    CmInvalidSubmitted =>
        /\ alive' /\ closeReq' = closeReq
        /\ timers' = timers /\ delivered' = delivered
        /\ lookups' = lookups /\ cmOps' = cmOps
        /\ cm'.status = "error"
        /\ cm'.address = cm.address /\ trim(cm'.address) # <<>>

\* C16: in manual entry, submitting an address that fails validation does
\* not end the session: no lookup is made and nothing is sent or closed, the
\* error state is shown with the input kept and the submit control enabled
\* (status is not 'checking', the field is not empty), so that a later
\* submission of a valid address can still be verified and connected.
C16_InvalidSubmissionRecoverable == [][C16_Step]_vars

\* an invalid submission came first; the lookup started after it succeeded
C16_Witness ==
    /\ page = "connect_paste"
    /\ cm.invalidAt = 0 /\ cm.nVerifs = 1 /\ cm.nSuccess = 1
    /\ cm.status = "success"
    /\ cm.address \in verified

\* a step in which the extension strategy fails in a way it had not failed
\* before (library import, WalletManager construction, render under the
\* provider, wallet.connect())
XcExtensionFailed == page = "connect_ext" /\ xc'.failed # xc.failed

C17_Step ==
    XcExtensionFailed =>
        /\ alive' /\ closeReq' = closeReq
        /\ xc'.stage \in {"ui", "fallback"}
        /\ xc'.stage = "fallback" =>
               ~xc'.success /\ ~xc'.checking /\ xc'.error = "null"
        /\ xc'.stage = "ui" =>
               /\ xc'.error = "connect"
               /\ xc'.success = xc.success /\ xc'.showManual = xc.showManual
               /\ xc'.checking = xc.checking /\ xc'.manualAddress = xc.manualAddress

C19_DeliveryFailureCaught == ~("sendData" \in unhandled)

\* C20: no failure of an awaited collaborator operation ends as an
\* unhandled promise rejection.
C20_NoUnhandledRejection == unhandled \cap {"disconnect", "import"} = {}

\* an input the validators are to reject: empty (or null), of a length other
\* than 58, or one whose decoding raises
C21_Unacceptable(x) == x = Empty \/ Len(x) # AddrLen \/ ~decodeAddress(x)

\* C21: for an empty or null input, an input whose length is not 58, and an
\* input whose decoding raises, each validator returns false (it returns: the
\* exception of the decoder does not leave it)
C21_ValidatorRejects ==
    C21_Unacceptable(candidate) =>
        /\ verdict.algo \in {"none", "false"}
        /\ verdict.algorand \in {"none", "false"}

C21_Witness ==
    /\ Len(candidate) = AddrLen
    /\ ~decodeAddress(candidate)
    /\ verdict = [algo |-> "false", algorand |-> "false"]

\* C22: each validator returns true for every address of the right length
\* with a valid checksum, and false for every string that differs from such
\* an address in a single character
C22_ChecksumLaw ==
    /\ candidate \in {AddrA, AddrB} =>
           /\ verdict.algo \in {"none", "true"}
           /\ verdict.algorand \in {"none", "true"}
    /\ candidate \in OneCharChanged(AddrA) \cup OneCharChanged(AddrB) =>
           /\ verdict.algo \in {"none", "false"}
           /\ verdict.algorand \in {"none", "false"}

\* C23: on the dashboard, the stored x10v_wallet entry is absent when the
\* last connect or disconnect to complete was a disconnect or when no connect
\* succeeded, and otherwise holds exactly the address of the most recent
\* successful connect; a failed connect leaves it as it was
C23_StorageFollowsWallet ==
    page = "dex" =>
        /\ wp.last = "connect" => wp.storage = wp.lastOk /\ wp.storage # Empty
        /\ wp.last \in {"none", "disconnect"} => wp.storage = Empty

C23_Witness ==
    /\ page = "dex"
    /\ wp.nConnects = 2
    /\ wp.error = "verify"
    /\ wp.last = "disconnect"
    /\ wp.lastOk = AddrB
    /\ wp.storage = Empty

\* C24: a signing that was rejected or failed is never requested again by
\* the page itself: each user initiation (one handleSendAlgo or handleSign
\* call) makes at most one signature request
C24_OneSignatureRequestPerInitiation ==
    /\ page = "transact" => tmAtt.nSign <= 1
    /\ page = "sign_swap" => \A i \in DOMAIN ssAtt : ssAtt[i].nSign <= 1

\* the signer rejected the one request of an attempt, and the attempt ended
C24_Witness ==
    /\ page = "sign_swap"
    /\ \E i \in DOMAIN ssAtt :
          /\ ssAtt[i].pc = "done"
          /\ ssAtt[i].cause = "rejected"
          /\ ssAtt[i].nSign = 1
    /\ ss.status = "error"

\* a verification's account lookup resolves reporting no funds
C25_Step ==
    /\ \A a \in Candidates, amount \in {Missing, 0} :
          CmLookupResolved(a, amount) =>
              /\ cm'.status = "success"
              /\ cm'.balance = 0
    /\ \A a \in Candidates, amount \in {Missing, 0} :
          XcManualResolved(a, amount) =>
              /\ xc'.success
              /\ XcWalletUi => xc'.balance = 0
              /\ tg => timers'[Len(timers')].balance = 0

C26_FreshParamsAndTxnPerAttempt ==
    /\ (page = "transact" /\ (tmAtt.nSign > 0 \/ tmAtt.nSend > 0)) =>
          /\ tmAtt.nParams = 1
          /\ tmAtt.params = tmAtt.n
          /\ tmAtt.txn = tmAtt.n
    /\ page = "sign_swap" =>
          \A i \in DOMAIN ssAtt :
              (ssAtt[i].nSign > 0 \/ ssAtt[i].nSend > 0) =>
                  /\ ssAtt[i].nParams = 1
                  /\ ssAtt[i].params = i
                  /\ ssAtt[i].txn = i

\* the second payment of a page load waits for its signature
C26_Witness ==
    /\ page = "transact"
    /\ tmAtt.n = 2
    /\ tmAtt.pc = "sign"
    /\ tmAtt.nSign = 1
    /\ tmAtt.txn = 2

\* C27: once a component has been torn down, the settlement of an operation
\* it left pending is swallowed: it updates no state, delivers nothing to the
\* host and raises no error.  In SignSwapMode only the last mount's fetch of
\* the pending transaction belongs to a live component, so at most one fetch
\* settlement updates the state.
C27_SettlementAfterTeardownSwallowed ==
    page = "sign_swap" => ss.applied <= 1

\* C28 (bound): confirmation polling never runs more rounds than its limit
\* of 4
C28_RoundsBounded ==
    /\ tmAtt.rounds <= WaitRounds
    /\ \A i \in DOMAIN ssAtt : ssAtt[i].rounds <= WaitRounds

\* a step taken while a confirmation is awaited: the wait goes on with the
\* same or one more round used, or the stage is left, for success or for
\* an error state, and only for an error state once the rounds are used up
C28_Step ==
    /\ (page = "transact" /\ tmAtt.pc = "wait") =>
          \/ /\ tmAtt'.pc = "wait"
             /\ tmAtt'.rounds \in {tmAtt.rounds, tmAtt.rounds + 1}
          \/ /\ tmAtt'.pc = "refresh"
             /\ tm'.txStatus = "confirmed"
             /\ tmAtt.rounds < WaitRounds
          \/ /\ tmAtt'.pc = "idle"
             /\ tm'.txStatus = "failed"
    /\ \A i \in DOMAIN ssAtt :
          (page = "sign_swap" /\ ssAtt[i].pc = "wait") =>
              \/ /\ ssAtt'[i].pc = "wait"
                 /\ ssAtt'[i].rounds \in {ssAtt[i].rounds, ssAtt[i].rounds + 1}
              \/ /\ ssAtt'[i].pc = "done"
                 /\ ssAtt'[i].result = "success"
                 /\ ss'.status = "success"
                 /\ ssAtt[i].rounds < WaitRounds
              \/ /\ ssAtt'[i].pc = "done"
                 /\ ssAtt'[i].result = "error"
                 /\ ss'.status = "error"

\* C28: confirmation polling is started with the round limit 4 and ends
\* after at most that many rounds: every round taken uses up one of the 4,
\* and the session leaves the awaiting-confirmation stage for success or for
\* an error state; it does not go on polling
C28_PollingEnds == []C28_RoundsBounded /\ [][C28_Step]_vars

\* the rounds were used up and the attempt ended in the error state
C28_Witness ==
    /\ page = "transact"
    /\ tmAtt.pc = "idle"
    /\ tmAtt.cause = "timeout"
    /\ tm.txStatus = "failed"
    /\ ~tm.loading

RECURSIVE SsSends(_)
SsSends(k) == IF k = 0 THEN 0 ELSE ssAtt[k].nSend + SsSends(k - 1)

\* C29: at most one signing attempt is in flight at any time of a page
\* load: handleSign does not start while an attempt of SignSwapMode is in
\* progress, also when a late fetch of the pending transaction sets the
\* status back to 'ready', and handleSendAlgo does not start while loading;
\* so at most one sendRawTransaction call is made per pending transaction
C29_OneAttemptInFlight ==
    /\ page = "sign_swap" =>
          /\ Cardinality({i \in DOMAIN ssAtt : ssAtt[i].pc # "done"}) <= 1
          /\ SsSends(Len(ssAtt)) <= 1
    /\ page = "transact" => (tmAtt.pc # "idle" => tm.loading)

\* a wallet_connected payload is handed to the host by the paste-based
\* ConnectMode: its address is the one the success screen shows
C30_Step ==
    (page = "connect_paste" /\ Len(delivered') > Len(delivered)) =>
        /\ cm.status = "success"
        /\ delivered'[Len(delivered')].address = trim(cm.address)

\* C30: in the paste-based ConnectMode the address of the delivered
\* wallet_connected payload is the address shown on the success screen at the
\* time of the delivery, however overlapping verifications interleave
C30_DeliveredIsShown == [][C30_Step]_vars

\* the status of the paste-based ConnectMode stays 'success' once it is
C31_Step ==
    (page = "connect_paste" /\ cm.status = "success") => cm'.status = "success"

\* C31: in the paste-based ConnectMode the status, once 'success', never
\* changes again during the page load: no verification that is still
\* pending moves it to 'error' or 'checking' afterwards
C31_SuccessIsFinal == [][C31_Step]_vars

\* C32: in TransactMode the stored balance belongs to the active account:
\* with no active account (after a disconnect) it is null, and the late
\* result of a balance lookup started for an earlier account does not
\* overwrite it
C32_BalanceOfActiveAccount ==
    (page = "transact" /\ tm.activeAccount = Empty) => tm.balance = Null

\* SignSwapMode was in the 'error' status (ss.erred): no attempt asks for a
\* signature or submits from then on
C33_Step ==
    (page = "sign_swap" /\ ss.erred) =>
        /\ Len(ssAtt') = Len(ssAtt) =>
              \A i \in DOMAIN ssAtt :
                  /\ ssAtt'[i].nSign = ssAtt[i].nSign
                  /\ ssAtt'[i].nSend = ssAtt[i].nSend
        /\ Len(ssAtt') > Len(ssAtt) => ssAtt'[Len(ssAtt')].pc = "done"

\* C33: in SignSwapMode the 'error' status is terminal for the page load:
\* once it is reached, no further signTxns or sendRawTransaction call is
\* made and the status never becomes 'signing' or 'success'
C33_ErrorIsTerminal ==
    /\ []((page = "sign_swap" /\ ss.erred) => ss.status \notin {"signing", "success"})
    /\ [][C33_Step]_vars

\* C34: on the injected-object signing path signTxns is called only after
\* enable resolved in the same attempt; an attempt that found no injected
\* object or whose enable rejected calls neither signTxns nor
\* sendRawTransaction and has set the status 'error'
C34_SignOnlyAfterEnable ==
    page = "sign_swap" =>
        \A i \in DOMAIN ssAtt :
            /\ ssAtt[i].nSign > 0 =>
                  \E k \in DOMAIN ssAtt[i].trace : ssAtt[i].trace[k] = "enable"
            /\ ssAtt[i].cause \in {"nolute", "enable"} =>
                  /\ ssAtt[i].nSign = 0
                  /\ ssAtt[i].nSend = 0
                  /\ ssAtt[i].pc = "done"
                  /\ ssAtt[i].result = "error"
                  /\ ss.erred

\* enable rejected: the attempt ended with nothing signed or submitted
C34_Witness ==
    /\ page = "sign_swap"
    /\ \E i \in DOMAIN ssAtt :
          /\ ssAtt[i].cause = "enable"
          /\ ssAtt[i].pc = "done"
          /\ ssAtt[i].nSign = 0
    /\ ss.status = "error"
    /\ ss.errorMsg = "approve"

\* C35: when every awaited call settles, every payment attempt ends while
\* the page lives: a handleSendAlgo invocation that set loading sets it back
\* to false, and a handleSign invocation that set 'signing' ends by setting
\* 'success' or 'error'.
\* (An ended attempt stays ended and loading is true only while an attempt
\* runs, so "every attempt ends" is: again and again no attempt is running.)
C35_NoneRunning ==
    \/ ~alive
    \/ page = "transact" /\ ~tm.loading /\ tmAtt.pc = "idle"
    \/ /\ page = "sign_swap"
       /\ \A i \in DOMAIN ssAtt : /\ ssAtt[i].pc = "done"
                                  /\ ssAtt[i].result \in {"success", "error"}

C35_AttemptsTerminate == []<>C35_NoneRunning

\* a payment has gone all the way through (confirmed, balance refreshed, loading
\* back to false), and a signing attempt has ended in 'success'
C35_Witness ==
    \/ /\ page = "transact" /\ ~tm.loading /\ tm.txStatus = "confirmed"
       /\ tmAtt.pc = "idle" /\ tmAtt.nSend = 1
    \/ /\ page = "sign_swap" /\ Len(ssAtt) = 2
       /\ ssAtt[2].pc = "done" /\ ssAtt[2].result = "success"


\* C36: no WebSocket is created once the Dashboard has been unmounted
C36_NoSocketAfterUnmount == \A i \in DOMAIN dash.sockets : ~dash.sockets[i].late

====
